---- MODULE Spec2Model ----
(***************************************************************************)
(* A model of src/server.py: a lock-step TFTP server.  run_server starts   *)
(* one thread per received datagram; every thread runs _parse_pkt and      *)
(* shares the two context tables (reads, writes), the Event timers held by *)
(* the contexts, the file system and the socket.  No lock is taken         *)
(* anywhere in the source, so the threads interleave between any two       *)
(* accesses of shared state; one action below is one such access together  *)
(* with the thread-local computation around it.                            *)
(***************************************************************************)
EXTENDS Integers, Sequences, FiniteSets, TLC

VARIABLES
    reads,      \* self.reads : addr -> FileContext (a dict: DOMAIN = its keys)
    writes,     \* self.writes: addr -> FileContext
    files,      \* the file system: filename -> bytes (DOMAIN = existing files)
    timer,      \* the Event created by thread t: "none" | "clear" | "set"
    thr,        \* the handler threads, in order of arrival
    out         \* out[t]: the packets thread t has handed to sendto, in order

vars == <<reads, writes, files, timer, thr, out>>

----------------------------------------------------------------------------
\* Bounds of the model.

\* threads (datagrams received) per run
MaxThreads == 3
\* timeouts that elapse per run, over all retransmission loops
MaxRetries == 2

----------------------------------------------------------------------------
\* Constants of constants.py (imported at src/server.py:9, not part of src/).

RRQ_MODE == 1
WRQ_MODE == 2
DATA_MODE == 3
ACK_MODE == 4
ERROR_MODE == 5
ERR_NOT_DEFINED == 0
ERR_FILE_NOT_FOUND == 1
ERR_ILLEGAL_TFTP_OP == 4
ERR_UNKNOWN_TID == 5
\* maxBlockSize, scaled down from 512 so that whole files fit in a state
MAX_BYTES == 6
\* the size under which a received DATA payload ends a write
MAX_BUFFER_WRQ == MAX_BYTES

\* struct '>hh': two big-endian signed 16-bit fields, 4 bytes
HeaderLen == 4
ShortMin == -32768
ShortMax == 32767
WordMod == 65536

----------------------------------------------------------------------------
\* Values.

Min(a, b) == IF a < b THEN a ELSE b

\* the empty dict
EmptyDict == [x \in {} |-> 0]

\* dct[key] = val
DictPut(dct, key, val) ==
    [x \in DOMAIN dct \cup {key} |-> IF x = key THEN val ELSE dct[x]]

\* class FileContext
FileContext(filename, block_num, tm, is_done) ==
    [filename |-> filename, block_num |-> block_num, timer |-> tm,
     is_done |-> is_done]

\* the default of FileContext's is_done parameter
None == "None"

\* a thread's fc before it has looked a context up
NoFC == FileContext("", -1, 0, FALSE)

\* what a thread's pkt holds before it has built a packet
NoPkt == [op |-> 0, num |-> 0, data |-> <<>>, msg |-> ""]

\* struct.pack of one 'h' field succeeds only for a signed 16-bit value
PackOK(n) == n >= ShortMin /\ n <= ShortMax

\* the two bytes struct.pack('>h', n) writes, read as an unsigned number
Pack_h(n) == n % WordMod

\* struct.unpack('>h', two bytes): the bytes read as a signed number
Unpack_h(w) == IF w > ShortMax THEN w - WordMod ELSE w

_ACK(block_num) ==
    [op |-> ACK_MODE, num |-> Pack_h(block_num), data |-> <<>>, msg |-> ""]

_DATA(block_num, buf) ==
    [op |-> DATA_MODE, num |-> Pack_h(block_num), data |-> buf, msg |-> ""]

_ERROR(code, msg) ==
    [op |-> ERROR_MODE, num |-> Pack_h(code), data |-> <<>>, msg |-> msg]

\* A file is held as its bytes, but for a head of skip bytes of which only the
\* number is held: the i-th byte of the head is i.
File(skip, bytes) == [skip |-> skip, bytes |-> bytes]

FileLen(file) == file.skip + Len(file.bytes)

ByteAt(file, i) == IF i <= file.skip THEN i ELSE file.bytes[i - file.skip]

\* f.seek(off); f.read(n)
SeekRead(file, off, n) ==
    IF off >= FileLen(file) THEN <<>>
    ELSE [i \in 1..(Min(off + n, FileLen(file)) - off) |-> ByteAt(file, off + i)]

\* open(filename, 'wb'); f.seek(off); f.write(buf): 'wb' truncates the file,
\* and a write past the end fills the gap with zero bytes
SeekWrite(off, buf) ==
    IF Len(buf) = 0 THEN File(0, <<>>)
    ELSE File(0, [i \in 1..(off + Len(buf)) |->
                     IF i <= off THEN 0 ELSE buf[i - off]])

----------------------------------------------------------------------------
\* Datagrams as the peers send them.

\* form: "ok", a datagram laid out as its opcode requires; "noterm", a
\* request whose mode string lacks the final NUL; "short", a datagram cut
\* before the NUL of the filename (request) or inside the block number
\* (ACK, DATA)
Dgram(op, filename, mode, bnum, payload) ==
    [op |-> op, filename |-> filename, mode |-> mode, bnum |-> bnum,
     payload |-> payload, form |-> "ok"]

RRQ(filename, mode) == Dgram(RRQ_MODE, filename, mode, 0, <<>>)
WRQ(filename, mode) == Dgram(WRQ_MODE, filename, mode, 0, <<>>)
ACK(n) == Dgram(ACK_MODE, "", "", n, <<>>)
DATA(n, payload) == Dgram(DATA_MODE, "", "", n, payload)

\* a datagram of an opcode _parse_pkt has no branch for
Other(op) == Dgram(op, "", "", 0, <<>>)

NoTerminator(d) == [d EXCEPT !.form = "noterm"]
ShortHeader(d) == [d EXCEPT !.form = "short"]

\* a payload of len bytes, each of value b
Payload(b, len) == [i \in 1..len |-> b]

\* sock.recvfrom(MAX_BYTES): a datagram longer than MAX_BYTES loses its tail.
\* Only a DATA datagram (4 header bytes and the payload) is ever that long here.
recvfrom(d) ==
    IF d.op = DATA_MODE /\ HeaderLen + Len(d.payload) > MAX_BYTES
    THEN [d EXCEPT !.payload = SubSeq(d.payload, 1, MAX_BYTES - HeaderLen)]
    ELSE d

----------------------------------------------------------------------------
\* Threads.

\* Thread(target=self._parse_pkt, args=(data, addr)); raw is the datagram as
\* the peer sent it, data what recvfrom returned
NewThread(addr, raw) ==
    [pc |-> "parse", addr |-> addr, raw |-> raw, data |-> recvfrom(raw),
     fc |-> NoFC, filename |-> "", block_num |-> 0, buf |-> <<>>,
     pkt |-> NoPkt, is_done |-> FALSE,
     elapsed |-> 0,     \* how often timer.wait(timeout) has returned False
     xfer |-> 0,        \* the thread of the RRQ/WRQ this thread's transfer began with
     prior |-> 0]       \* the timer an RRQ/WRQ thread set in _parse_pkt, 0 if none

Tids == DOMAIN thr

IsRead(t) == thr[t].data.op \in {RRQ_MODE, ACK_MODE}
IsWrite(t) == thr[t].data.op \in {WRQ_MODE, DATA_MODE}

\* timeouts elapsed so far, over all threads
RECURSIVE SumElapsed(_)
SumElapsed(n) == IF n = 0 THEN 0 ELSE thr[n].elapsed + SumElapsed(n - 1)

\* timer.set()
TimerSet(tm, t) == [tm EXCEPT ![t] = "set"]

\* ModeOK accepting every mode string
ModeOKAny(mode) == TRUE

\* the test of _validate_mode
ModeOK(mode) == mode = "octet"

\* Fail sending the packet twice
FailTwice(t, code, msg) ==
    /\ out' = [out EXCEPT ![t] = Append(Append(@, _ERROR(code, msg)),
                                        _ERROR(code, msg))]
    /\ thr' = [thr EXCEPT ![t].pc = "exit"]
    /\ UNCHANGED <<reads, writes, files, timer>>

\* Fail after the preemption instead of before it: the timers of the
\* contexts the peer has are set
FailPreempting(t, code, msg) ==
    /\ out' = [out EXCEPT ![t] = Append(@, _ERROR(code, msg))]
    /\ thr' = [thr EXCEPT ![t].pc = "exit"]
    /\ timer' = [u \in DOMAIN timer |->
                   IF \/ /\ thr[t].addr \in DOMAIN reads
                         /\ reads[thr[t].addr].timer = u
                      \/ /\ thr[t].addr \in DOMAIN writes
                         /\ writes[thr[t].addr].timer = u
                   THEN "set" ELSE timer[u]]
    /\ UNCHANGED <<reads, writes, files>>

\* Fail ending the process instead of the thread: every thread ends
FailAll(t, code, msg) ==
    /\ out' = [out EXCEPT ![t] = Append(@, _ERROR(code, msg))]
    /\ thr' = [u \in DOMAIN thr |-> [thr[u] EXCEPT !.pc = "exit"]]
    /\ UNCHANGED <<reads, writes, files, timer>>

\* Fail without the sendto: the thread ends and the peer is told nothing
FailSilently(t, code, msg) ==
    /\ thr' = [thr EXCEPT ![t].pc = "exit"]
    /\ UNCHANGED <<reads, writes, files, timer, out>>

\* _handle_ERROR followed by sys.exit(): the packet is sent and the thread ends
\* (SystemExit raised in a thread ends that thread alone)
Fail(t, code, msg) ==
    /\ out' = [out EXCEPT ![t] = Append(@, _ERROR(code, msg))]
    /\ thr' = [thr EXCEPT ![t].pc = "exit"]
    /\ UNCHANGED <<reads, writes, files, timer>>

\* an exception leaves the thread: it ends and nothing is sent
Raise(t) ==
    /\ thr' = [thr EXCEPT ![t].pc = "raised"]
    /\ UNCHANGED <<reads, writes, files, timer, out>>

\* filename, mode = data.decode().split('\0')[:2] finds its two strings
SplitOK(d) == d.form # "short"

\* struct.unpack('>h', ...) is given the two bytes of the block number
UnpackOK(d) == d.form # "short"

----------------------------------------------------------------------------
\* Receive of a server that handles a datagram inside its receive loop: while
\* a handler is in a retransmission loop nothing is received
ReceiveWhenIdle(P, limit) ==
    /\ Len(thr) < limit
    /\ \A t \in DOMAIN thr : thr[t].pc \notin {"wait", "retry"}
    /\ \E a \in DOMAIN P : \E d \in P[a] :
         thr' = Append(thr, NewThread(a, d))
    /\ UNCHANGED <<reads, writes, files, timer, out>>

\* run_server: one more datagram arrives, from the set P of datagrams the
\* peers may send, and is handed to a new thread; limit bounds the run.

Receive(P, limit) ==
    /\ Len(thr) < limit
    /\ \E a \in DOMAIN P : \E d \in P[a] :
         thr' = Append(thr, NewThread(a, d))
    /\ UNCHANGED <<reads, writes, files, timer, out>>

----------------------------------------------------------------------------
\* _parse_pkt, one action per opcode.

\* RRQ: validate the mode and the file, set the timer of the context the
\* peer already has, and enter _handle_RRQ at block 1
ParseRRQ(t) ==
    /\ thr[t].pc = "parse"
    /\ thr[t].data.op = RRQ_MODE
    /\ LET a == thr[t].addr
           d == thr[t].data
       IN  IF ~SplitOK(d)
           THEN Raise(t)
           ELSE IF ~ModeOK(d.mode)
           THEN Fail(t, ERR_ILLEGAL_TFTP_OP, "TFTP only supports binary mode")
           ELSE IF d.filename \notin DOMAIN files
           THEN Fail(t, ERR_FILE_NOT_FOUND, "File does not exist")
           ELSE /\ timer' = IF a \in DOMAIN reads
                            THEN TimerSet(timer, reads[a].timer)
                            ELSE timer
                /\ thr' = [thr EXCEPT ![t].pc = "rrq",
                                      ![t].filename = d.filename,
                                      ![t].block_num = 1,
                                      ![t].xfer = t,
                                      ![t].prior = IF a \in DOMAIN reads
                                                   THEN reads[a].timer ELSE 0]
                /\ UNCHANGED <<reads, writes, files, out>>

\* WRQ: validate the mode, set the timer of the context the peer already
\* has, and enter _handle_WRQ at block 0
ParseWRQ(t) ==
    /\ thr[t].pc = "parse"
    /\ thr[t].data.op = WRQ_MODE
    /\ LET a == thr[t].addr
           d == thr[t].data
       IN  IF ~SplitOK(d)
           THEN Raise(t)
           ELSE IF ~ModeOK(d.mode)
           THEN Fail(t, ERR_ILLEGAL_TFTP_OP, "TFTP only supports binary mode")
           ELSE /\ timer' = IF a \in DOMAIN writes
                            THEN TimerSet(timer, writes[a].timer)
                            ELSE timer
                /\ thr' = [thr EXCEPT ![t].pc = "wrq",
                                      ![t].filename = d.filename,
                                      ![t].block_num = 0,
                                      ![t].xfer = t,
                                      ![t].prior = IF a \in DOMAIN writes
                                                   THEN writes[a].timer ELSE 0]
                /\ UNCHANGED <<reads, writes, files, out>>

\* ACK: unpack the block number; _handle_ACK validates the peer and looks
\* its read context up
ParseACK(t) ==
    /\ thr[t].pc = "parse"
    /\ thr[t].data.op = ACK_MODE
    /\ LET a == thr[t].addr
       IN  IF ~UnpackOK(thr[t].data)
           THEN Raise(t)
           ELSE IF a \notin DOMAIN reads
           THEN Fail(t, ERR_UNKNOWN_TID, "Unknown transfer ID")
           ELSE /\ thr' = [thr EXCEPT ![t].pc = "ack",
                                      ![t].block_num = Unpack_h(thr[t].data.bnum),
                                      ![t].fc = reads[a],
                                      ![t].xfer = thr[reads[a].timer].xfer]
                /\ UNCHANGED <<reads, writes, files, timer, out>>

\* DATA: unpack the block number and the payload; _handle_DATA validates the
\* peer and looks its write context up
ParseDATA(t) ==
    /\ thr[t].pc = "parse"
    /\ thr[t].data.op = DATA_MODE
    /\ LET a == thr[t].addr
       IN  IF ~UnpackOK(thr[t].data)
           THEN Raise(t)
           ELSE IF a \notin DOMAIN writes
           THEN Fail(t, ERR_UNKNOWN_TID, "Unknown transfer ID")
           ELSE /\ thr' = [thr EXCEPT ![t].pc = "data",
                                      ![t].block_num = Unpack_h(thr[t].data.bnum),
                                      ![t].buf = thr[t].data.payload,
                                      ![t].fc = writes[a],
                                      ![t].xfer = thr[writes[a].timer].xfer]
                /\ UNCHANGED <<reads, writes, files, timer, out>>

\* ParseOther without the reply
ParseOtherSilently(t) ==
    /\ thr[t].pc = "parse"
    /\ thr[t].data.op \notin {RRQ_MODE, WRQ_MODE, ACK_MODE, DATA_MODE}
    /\ thr' = [thr EXCEPT ![t].pc = "done"]
    /\ UNCHANGED <<reads, writes, files, timer, out>>

\* any other opcode: ERROR(ERR_NOT_DEFINED) is sent and _parse_pkt returns
ParseOther(t) ==
    /\ thr[t].pc = "parse"
    /\ thr[t].data.op \notin {RRQ_MODE, WRQ_MODE, ACK_MODE, DATA_MODE}
    /\ out' = [out EXCEPT ![t] = Append(@, _ERROR(ERR_NOT_DEFINED,
                                                  "Invalid packet type"))]
    /\ thr' = [thr EXCEPT ![t].pc = "done"]
    /\ UNCHANGED <<reads, writes, files, timer>>

----------------------------------------------------------------------------
\* _handle_ACK and _handle_DATA after the lookup.

\* AckMatches with <= for ==: an ACK of a later block is taken for the
\* expected one
AckMatchesLater(fc, block_num) == fc.block_num <= block_num

\* the test of _handle_ACK
AckMatches(fc, block_num) == fc.block_num = block_num

\* the test of _handle_DATA
DataMatches(fc, block_num) == fc.block_num + 1 = block_num

HandleACK(t) ==
    /\ thr[t].pc = "ack"
    /\ LET fc == thr[t].fc
       IN  IF AckMatches(fc, thr[t].block_num)
           THEN /\ timer' = TimerSet(timer, fc.timer)
                /\ thr' = IF ~fc.is_done
                          THEN [thr EXCEPT ![t].pc = "rrq",
                                           ![t].filename = fc.filename,
                                           ![t].block_num = fc.block_num + 1]
                          ELSE [thr EXCEPT ![t].pc = "done"]
           ELSE /\ thr' = [thr EXCEPT ![t].pc = "done"]
                /\ UNCHANGED timer
    /\ UNCHANGED <<reads, writes, files, out>>

HandleDATA(t) ==
    /\ thr[t].pc = "data"
    /\ LET fc == thr[t].fc
       IN  IF DataMatches(fc, thr[t].block_num)
           THEN /\ timer' = TimerSet(timer, fc.timer)
                /\ thr' = [thr EXCEPT ![t].pc = "wrq",
                                      ![t].filename = fc.filename,
                                      ![t].block_num = fc.block_num + 1]
           ELSE /\ thr' = [thr EXCEPT ![t].pc = "done"]
                /\ UNCHANGED timer
    /\ UNCHANGED <<reads, writes, files, out>>

----------------------------------------------------------------------------
\* _handle_RRQ and _handle_WRQ up to the retransmission loop.  The first
\* sendto is taken together with the store of the context before it: it
\* changes nothing another thread reads.

\* self._transmit(pkt, addr)
_transmit(t, pkt) == out' = [out EXCEPT ![t] = Append(@, pkt)]

\* is_done of _handle_RRQ
ReadIsDone(buf) == Len(buf) < MAX_BYTES

\* is_done of _handle_WRQ for a block that was written
WriteIsDone(buf) == Len(buf) < MAX_BUFFER_WRQ

\* read the block, build DATA(block_num), create the timer, store the
\* context, send the packet and enter the loop
HandleRRQ(t) ==
    /\ thr[t].pc = "rrq"
    /\ LET a == thr[t].addr
           block_num == thr[t].block_num
           buf == SeekRead(files[thr[t].filename], (block_num - 1) * MAX_BYTES,
                           MAX_BYTES)
           is_done == ReadIsDone(buf)
           pkt == _DATA(block_num, buf)
       IN  IF ~PackOK(block_num)
           THEN \* struct.error ends the thread before anything is stored
                /\ thr' = [thr EXCEPT ![t].pc = "raised"]
                /\ UNCHANGED <<reads, timer, out>>
           ELSE /\ thr' = [thr EXCEPT ![t].pc = "wait",
                                      ![t].buf = buf,
                                      ![t].is_done = is_done,
                                      ![t].pkt = pkt]
                /\ timer' = [timer EXCEPT ![t] = "clear"]
                /\ reads' = DictPut(reads, a,
                              FileContext(thr[t].filename, block_num, t, is_done))
                /\ _transmit(t, pkt)
    /\ UNCHANGED <<writes, files>>

\* write the block (none for block 0), build ACK(block_num), create the
\* timer, store the context, send the packet and, unless the block was the
\* last, enter the loop
HandleWRQ(t) ==
    /\ thr[t].pc = "wrq"
    /\ LET a == thr[t].addr
           block_num == thr[t].block_num
           buf == thr[t].buf
           is_done == IF block_num > 0 THEN WriteIsDone(buf) ELSE FALSE
           pkt == _ACK(block_num)
       IN  /\ files' = IF block_num > 0
                       THEN DictPut(files, thr[t].filename,
                                    SeekWrite((block_num - 1) * MAX_BYTES, buf))
                       ELSE files
           /\ IF ~PackOK(block_num)
              THEN /\ thr' = [thr EXCEPT ![t].pc = "raised"]
                   /\ UNCHANGED <<writes, timer, out>>
              ELSE /\ thr' = [thr EXCEPT ![t].pc = IF is_done THEN "done" ELSE "wait",
                                         ![t].is_done = is_done,
                                         ![t].pkt = pkt]
                   /\ timer' = [timer EXCEPT ![t] = "clear"]
                   /\ writes' = DictPut(writes, a,
                                  FileContext(thr[t].filename, block_num, t, None))
                   /\ _transmit(t, pkt)
    /\ UNCHANGED reads

----------------------------------------------------------------------------
\* The retransmission loop: while not timer.wait(self.timeout): transmit.

\* RetryPkt rebuilt for the next block instead of resent unchanged
RetryPktNext(t) == [thr[t].pkt EXCEPT !.num = @ + 1]

\* the packet a retransmission sends
RetryPkt(t) == thr[t].pkt

\* timer.wait(self.timeout) returns True: the loop ends
WaitSet(t) ==
    /\ thr[t].pc = "wait"
    /\ timer[t] = "set"
    /\ thr' = [thr EXCEPT ![t].pc = "done"]
    /\ UNCHANGED <<reads, writes, files, timer, out>>

\* timer.wait(self.timeout) returns False: the timeout elapsed unset
WaitTimeout(t) ==
    /\ thr[t].pc = "wait"
    /\ timer[t] = "clear"
    /\ SumElapsed(Len(thr)) < MaxRetries
    /\ thr' = [thr EXCEPT ![t].pc = "retry", ![t].elapsed = @ + 1]
    /\ UNCHANGED <<reads, writes, files, timer, out>>

\* 'Retry DATA' / 'Retry ACK'
Retransmit(t) ==
    /\ thr[t].pc = "retry"
    /\ _transmit(t, RetryPkt(t))
    /\ thr' = [thr EXCEPT ![t].pc = "wait"]
    /\ UNCHANGED <<reads, writes, files, timer>>

----------------------------------------------------------------------------
\* Initial states: Server.__init__ leaves both tables empty; no thread runs.

\* a file of size bytes whose i-th byte is i
FileOfSize(size) == File(0, [i \in 1..size |-> i])

\* a single read transfer is followed one datagram further
FileThreads == MaxThreads + 1

InitServer ==
    /\ reads = EmptyDict
    /\ writes = EmptyDict
    /\ timer = [t \in 1..FileThreads |-> "none"]
    /\ thr = <<>>
    /\ out = [t \in 1..FileThreads |-> <<>>]

----------------------------------------------------------------------------
\* What the peers send.

\* the block numbers a peer acknowledges
AckNums == {1, 2}

\* a read request and acknowledgements, in any order and number
ReadInputs == {RRQ("f", "octet")} \cup {ACK(n) : n \in AckNums}

\* a write request and data blocks, in any order and number: block 1 full
\* (MAX_BYTES of payload) or short, block 2 short
WriteInputs ==
    {WRQ("g", "octet"),
     DATA(1, Payload(1, MAX_BYTES)), DATA(1, Payload(1, 1)),
     DATA(2, Payload(2, 1))}

\* the file "f" holds one full block and one more byte; "g" does not exist
InitFiles == files = [x \in {"f"} |-> FileOfSize(MAX_BYTES + 1)]

\* One peer that either reads or writes: its first datagram decides which.
OneWayPeer ==
    [a \in {"a1"} |->
        IF thr = <<>> THEN ReadInputs \cup WriteInputs
        ELSE IF IsRead(1) THEN ReadInputs ELSE WriteInputs]

Init == InitServer /\ InitFiles

Next ==
    \/ Receive(OneWayPeer, MaxThreads)
    \/ \E t \in Tids : ParseRRQ(t)
    \/ \E t \in Tids : ParseWRQ(t)
    \/ \E t \in Tids : ParseACK(t)
    \/ \E t \in Tids : ParseDATA(t)
    \/ \E t \in Tids : HandleACK(t)
    \/ \E t \in Tids : HandleDATA(t)
    \/ \E t \in Tids : HandleRRQ(t)
    \/ \E t \in Tids : HandleWRQ(t)
    \/ \E t \in Tids : WaitSet(t)
    \/ \E t \in Tids : WaitTimeout(t)
    \/ \E t \in Tids : Retransmit(t)

Spec == Init /\ [][Next]_vars

\* A peer whose first datagram opens a transfer and whose later datagrams are
\* ACKs of any block (read transfer), or DATA of any block and further WRQs
\* (write transfer).
OpenedPeer ==
    [a \in {"a1"} |->
        IF thr = <<>> THEN {RRQ("f", "octet"), WRQ("g", "octet")}
        ELSE IF IsRead(1) THEN ReadInputs \ {RRQ("f", "octet")} ELSE WriteInputs]

NextOpened ==
    \/ Receive(OpenedPeer, MaxThreads)
    \/ \E t \in Tids : ParseRRQ(t)
    \/ \E t \in Tids : ParseWRQ(t)
    \/ \E t \in Tids : ParseACK(t)
    \/ \E t \in Tids : ParseDATA(t)
    \/ \E t \in Tids : HandleACK(t)
    \/ \E t \in Tids : HandleDATA(t)
    \/ \E t \in Tids : HandleRRQ(t)
    \/ \E t \in Tids : HandleWRQ(t)
    \/ \E t \in Tids : WaitSet(t)
    \/ \E t \in Tids : WaitTimeout(t)
    \/ \E t \in Tids : Retransmit(t)

SpecOpened == Init /\ [][NextOpened]_vars

----------------------------------------------------------------------------
\* One peer whose requests are valid or not: the file "h" does not exist and
\* "netascii" is not the mode the server supports.

ReadRequests ==
    {RRQ("f", "octet"), RRQ("h", "octet"), RRQ("f", "netascii"),
     RRQ("h", "netascii")}

WriteRequests == {WRQ("g", "octet"), WRQ("g", "netascii")}

\* the first datagram is any request; after a read request come the read
\* requests that fail and ACK(1), after a write request any write request
RequestPeer ==
    [a \in {"a1"} |->
        IF thr = <<>> THEN ReadRequests \cup WriteRequests
        ELSE IF IsRead(1)
        THEN (ReadRequests \ {RRQ("f", "octet")}) \cup {ACK(1)}
        ELSE WriteRequests]

NextReq ==
    \/ Receive(RequestPeer, MaxThreads)
    \/ \E t \in Tids : ParseRRQ(t)
    \/ \E t \in Tids : ParseWRQ(t)
    \/ \E t \in Tids : ParseACK(t)
    \/ \E t \in Tids : HandleACK(t)
    \/ \E t \in Tids : HandleRRQ(t)
    \/ \E t \in Tids : HandleWRQ(t)
    \/ \E t \in Tids : WaitSet(t)
    \/ \E t \in Tids : WaitTimeout(t)
    \/ \E t \in Tids : Retransmit(t)

SpecReq == Init /\ [][NextReq]_vars

----------------------------------------------------------------------------
\* Two peers: a1 starts transfers in one direction, the one of its first
\* request; every datagram of a2 is in error: a missing file, an unsupported
\* mode, an ACK without a transfer, an opcode the server does not know (that
\* of ERROR).

ErrPeers ==
    [a \in {"a1", "a2"} |->
        IF a = "a1"
        THEN IF \E t \in Tids : thr[t].data = RRQ("f", "octet")
             THEN {RRQ("f", "octet")}
             ELSE IF \E t \in Tids : thr[t].data = WRQ("g", "octet")
             THEN {WRQ("g", "octet")}
             ELSE {RRQ("f", "octet"), WRQ("g", "octet")}
        ELSE {RRQ("h", "octet"), RRQ("f", "netascii"), ACK(1),
              Other(ERROR_MODE)}]

NextErr ==
    \/ Receive(ErrPeers, MaxThreads)
    \/ \E t \in Tids : ParseRRQ(t)
    \/ \E t \in Tids : ParseWRQ(t)
    \/ \E t \in Tids : ParseACK(t)
    \/ \E t \in Tids : ParseOther(t)
    \/ \E t \in Tids : HandleRRQ(t)
    \/ \E t \in Tids : HandleWRQ(t)
    \/ \E t \in Tids : WaitSet(t)
    \/ \E t \in Tids : WaitTimeout(t)
    \/ \E t \in Tids : Retransmit(t)

SpecErr == Init /\ [][NextErr]_vars

----------------------------------------------------------------------------
\* One peer whose datagrams are malformed: requests without the NUL after the
\* mode or cut inside the filename, an ACK and a DATA cut inside the block
\* number.

MalformedInputs ==
    {NoTerminator(RRQ("f", "octet")), ShortHeader(RRQ("f", "octet")),
     ShortHeader(WRQ("g", "octet")), ShortHeader(ACK(1)),
     ShortHeader(DATA(1, <<>>))}

MalformedPeer == [a \in {"a1"} |-> MalformedInputs]

NextMal ==
    \/ Receive(MalformedPeer, MaxThreads)
    \/ \E t \in Tids : ParseRRQ(t)
    \/ \E t \in Tids : ParseWRQ(t)
    \/ \E t \in Tids : ParseACK(t)
    \/ \E t \in Tids : ParseDATA(t)
    \/ \E t \in Tids : HandleRRQ(t)
    \/ \E t \in Tids : WaitSet(t)
    \/ \E t \in Tids : WaitTimeout(t)
    \/ \E t \in Tids : Retransmit(t)

SpecMal == Init /\ [][NextMal]_vars

----------------------------------------------------------------------------
\* Two peers: a1 requests the file "f", first of all and once, and never
\* acknowledges a block; a2 sends requests of its own.

StallPeers ==
    [a \in {"a1", "a2"} |->
        IF a = "a1"
        THEN IF thr = <<>> THEN {RRQ("f", "octet")} ELSE {}
        ELSE IF thr = <<>> THEN {}
        ELSE {RRQ("f", "octet"), WRQ("g", "octet")}]

NextStall ==
    \/ Receive(StallPeers, MaxThreads)
    \/ \E t \in Tids : ParseRRQ(t)
    \/ \E t \in Tids : ParseWRQ(t)
    \/ \E t \in Tids : HandleRRQ(t)
    \/ \E t \in Tids : HandleWRQ(t)
    \/ \E t \in Tids : WaitSet(t)
    \/ \E t \in Tids : WaitTimeout(t)
    \/ \E t \in Tids : Retransmit(t)

SpecStall == Init /\ [][NextStall]_vars

----------------------------------------------------------------------------
\* One read transfer, for each file size, with a peer that acknowledges the
\* blocks it has been sent (any of them, any number of times).

\* the file sizes read: empty, one short block, exactly one block, one block
\* and a short one, exactly two blocks
FileSizes == {0, MAX_BYTES - 1, MAX_BYTES, MAX_BYTES + 1, 2 * MAX_BYTES}

\* the block numbers of the DATA packets on the wire
DataOnWire ==
    {out[t][1].num : t \in {u \in Tids : out[u] # <<>> /\ out[u][1].op = DATA_MODE}}

AckingPeer ==
    [a \in {"a1"} |->
        IF thr = <<>> THEN {RRQ("f", "octet")} ELSE {ACK(n) : n \in DataOnWire}]

InitFile ==
    /\ InitServer
    /\ \E size \in FileSizes : files = [x \in {"f"} |-> FileOfSize(size)]

NextFile ==
    \/ Receive(AckingPeer, FileThreads)
    \/ \E t \in Tids : ParseRRQ(t)
    \/ \E t \in Tids : ParseACK(t)
    \/ \E t \in Tids : HandleACK(t)
    \/ \E t \in Tids : HandleRRQ(t)
    \/ \E t \in Tids : WaitSet(t)
    \/ \E t \in Tids : WaitTimeout(t)
    \/ \E t \in Tids : Retransmit(t)

SpecFile == InitFile /\ [][NextFile]_vars

----------------------------------------------------------------------------
\* Two peers: a1 starts transfers in both directions, a2 has started none
\* and sends an ACK or a DATA.

TidPeers ==
    [a \in {"a1", "a2"} |->
        IF a = "a1" THEN {RRQ("f", "octet"), WRQ("g", "octet")}
        ELSE {ACK(1), DATA(1, Payload(1, 1))}]

NextTid ==
    \/ Receive(TidPeers, MaxThreads)
    \/ \E t \in Tids : ParseRRQ(t)
    \/ \E t \in Tids : ParseWRQ(t)
    \/ \E t \in Tids : ParseACK(t)
    \/ \E t \in Tids : ParseDATA(t)
    \/ \E t \in Tids : HandleRRQ(t)
    \/ \E t \in Tids : HandleWRQ(t)
    \/ \E t \in Tids : WaitSet(t)
    \/ \E t \in Tids : WaitTimeout(t)
    \/ \E t \in Tids : Retransmit(t)

SpecTid == Init /\ [][NextTid]_vars

----------------------------------------------------------------------------
\* A read transfer that has come to the last block number struct.pack takes:
\* the file holds ShortMax full blocks, blocks 1..ShortMax-1 have been sent
\* and acknowledged, and the handler of ACK(ShortMax-1) has stored the context
\* of block ShortMax, sent DATA(ShortMax) and waits in its loop.

HighFile ==
    File((ShortMax - 1) * MAX_BYTES,
         [i \in 1..MAX_BYTES |-> (ShortMax - 1) * MAX_BYTES + i])

HighThread ==
    [NewThread("a1", ACK(ShortMax - 1)) EXCEPT
        !.pc = "wait",
        !.fc = FileContext("f", ShortMax - 1, 0, FALSE),
        !.filename = "f",
        !.block_num = ShortMax,
        !.buf = SeekRead(HighFile, (ShortMax - 1) * MAX_BYTES, MAX_BYTES),
        !.pkt = _DATA(ShortMax, SeekRead(HighFile, (ShortMax - 1) * MAX_BYTES,
                                         MAX_BYTES))]

\* the peer acknowledges block ShortMax and the block after it, any number
\* of times
HighPeer == [a \in {"a1"} |-> {ACK(ShortMax), ACK(ShortMax + 1)}]

InitHigh ==
    /\ reads = [a \in {"a1"} |-> FileContext("f", ShortMax, 1, FALSE)]
    /\ writes = EmptyDict
    /\ files = [x \in {"f"} |-> HighFile]
    /\ timer = [t \in 1..FileThreads |-> IF t = 1 THEN "clear" ELSE "none"]
    /\ thr = <<HighThread>>
    /\ out = [t \in 1..FileThreads |-> IF t = 1 THEN <<HighThread.pkt>> ELSE <<>>]

NextHigh ==
    \/ Receive(HighPeer, MaxThreads)
    \/ \E t \in Tids : ParseACK(t)
    \/ \E t \in Tids : HandleACK(t)
    \/ \E t \in Tids : HandleRRQ(t)
    \/ \E t \in Tids : WaitSet(t)
    \/ \E t \in Tids : WaitTimeout(t)
    \/ \E t \in Tids : Retransmit(t)

SpecHigh == InitHigh /\ [][NextHigh]_vars

----------------------------------------------------------------------------
\* Vocabulary of the properties.

\* thread t has been through _handle_RRQ or _handle_WRQ: it has created its
\* timer, stored its context and sent its packet for the first time
Started(t) == timer[t] # "none"

\* thread t is inside its retransmission loop and nothing has ended it
Live(t) == thr[t].pc \in {"wait", "retry"} /\ timer[t] = "clear"

IsACK(t) == thr[t].data.op = ACK_MODE
IsDATA(t) == thr[t].data.op = DATA_MODE

\* the block numbers sent for the first time by the read threads
BlocksSent == {thr[t].block_num : t \in {u \in Tids : IsRead(u) /\ Started(u)}}

----------------------------------------------------------------------------
\* C1: identical ACK(n) datagrams, whatever the interleaving of their
\* handlers, start the send of DATA(n+1) at most once: of the ACK handlers
\* of one peer that matched the same context, at most one goes on to
\* _handle_RRQ.
C1_DuplicateAckSendsOnce ==
    \A t1, t2 \in Tids :
        ( /\ IsACK(t1) /\ IsACK(t2)
          /\ thr[t1].addr = thr[t2].addr
          /\ Started(t1) /\ Started(t2)
          /\ thr[t1].fc.timer = thr[t2].fc.timer )
        => t1 = t2

\* C2: a peer has at most one live retransmission loop per direction, and
\* that loop waits on the timer of the context stored for the peer.
C2_OneLiveTransfer ==
    /\ \A t1, t2 \in Tids :
        ( /\ Live(t1) /\ Live(t2)
          /\ thr[t1].addr = thr[t2].addr
          /\ IsRead(t1) = IsRead(t2) )
        => t1 = t2
    /\ \A t \in Tids :
        Live(t) =>
            IF IsRead(t) THEN reads[thr[t].addr].timer = t
                         ELSE writes[thr[t].addr].timer = t

\* C3: a validated RRQ from a peer that has a read context preempts it for
\* good: the context the RRQ stores is never replaced by a context of the
\* transfer it preempted.
C3_PreemptionIsFinal ==
    [][\A a \in DOMAIN reads :
         LET r == reads[a].timer
             h == reads'[a].timer
         IN  ( /\ reads'[a] # reads[a]
               /\ thr[r].data.op = RRQ_MODE
               /\ thr[r].prior # 0 )
             => thr[h].xfer # thr[thr[r].prior].xfer]_vars

----------------------------------------------------------------------------
\* the last block of a read of a file of size bytes
LastBlock(size) == size \div MAX_BYTES + 1

\* the bytes block n of a file carries
BlockOf(file, n) ==
    [i \in 1..Min(MAX_BYTES, FileLen(file) - (n - 1) * MAX_BYTES) |->
        ByteAt(file, (n - 1) * MAX_BYTES + i)]

\* C4, for the files of FileSizes: in a read of a file of size S whose blocks
\* are acknowledged, the DATA
\* blocks sent are blocks 1..S div MAX_BYTES + 1, each after all blocks before
\* it, block n carrying the bytes from offset (n-1)*MAX_BYTES; exactly the
\* last block is shorter than MAX_BYTES and exactly it sets completion; once
\* the last block is acknowledged, all of 1..last have been sent.
C4_ReadBlocks ==
    LET bytes == files["f"]
        last == LastBlock(FileLen(bytes))
    IN  /\ \A t \in Tids :
            (IsRead(t) /\ Started(t)) =>
                LET n == thr[t].block_num
                    p == out[t][1]
                IN  /\ n \in 1..last
                    /\ p.op = DATA_MODE /\ p.num = n
                    /\ p.data = BlockOf(bytes, n)
                    /\ (Len(p.data) < MAX_BYTES) <=> (n = last)
                    /\ thr[t].is_done <=> (n = last)
                    /\ \A m \in 1..(n - 1) : m \in BlocksSent
        /\ \A a \in DOMAIN reads :
            reads[a].is_done <=> (reads[a].block_num = last)
        /\ \A t \in Tids :
            (IsACK(t) /\ thr[t].pc = "done" /\ thr[t].fc.is_done
                /\ AckMatches(thr[t].fc, thr[t].block_num))
            => BlocksSent = 1..last

\* C4's case: a file of exactly MAX_BYTES bytes has been read to the end: its
\* second block, of length 0, was sent and acknowledged.
C4_Witness ==
    /\ FileLen(files["f"]) = MAX_BYTES
    /\ \E t \in Tids :
        /\ IsACK(t) /\ thr[t].pc = "done" /\ thr[t].fc.is_done
        /\ AckMatches(thr[t].fc, thr[t].block_num)
        /\ thr[t].fc.block_num = 2
        /\ out[thr[t].fc.timer] # <<>>
        /\ out[thr[t].fc.timer][1].data = <<>>

\* C4: every block of the file is sent: once a block that is not the last has
\* been acknowledged (the timer of its loop is set), the handler of the
\* acknowledgement is about to send the next block or has sent it, carrying
\* the bytes from offset block_num * MAX_BYTES.
C4_NextBlockFollows ==
    \A u \in Tids :
        (IsRead(u) /\ Started(u) /\ ~thr[u].is_done /\ timer[u] = "set") =>
            \E t \in Tids :
                /\ IsACK(t)
                /\ thr[t].fc.timer = u
                /\ thr[t].block_num = thr[u].block_num + 1
                /\ \/ thr[t].pc = "rrq"
                   \/ /\ Started(t)
                      /\ out[t][1].op = DATA_MODE
                      /\ out[t][1].num = thr[u].block_num + 1
                      /\ out[t][1].data = BlockOf(files["f"], thr[u].block_num + 1)

----------------------------------------------------------------------------
\* s \o t for byte strings given as functions on 1..n
Cat(s, t) ==
    [i \in 1..(Len(s) + Len(t)) |-> IF i <= Len(s) THEN s[i] ELSE t[i - Len(s)]]

\* the payloads the peer sent in the datagrams of threads 2..k, in order
RECURSIVE SentPayloads(_)
SentPayloads(k) ==
    IF k <= 1 THEN <<>> ELSE Cat(SentPayloads(k - 1), thr[k].raw.payload)

\* the datagrams so far are WRQ, DATA(1), ..., DATA(k), the blocks before the
\* last full and the last short, each accepted against the context the one
\* before it stored, and each written and acknowledged
InOrderWrite ==
    /\ Len(thr) >= 2
    /\ thr[1].raw.op = WRQ_MODE /\ Started(1)
    /\ \A j \in 2..Len(thr) :
        /\ thr[j].raw.op = DATA_MODE
        /\ thr[j].raw.bnum = j - 1
        /\ Len(thr[j].raw.payload) = MAX_BYTES <=> j < Len(thr)
        /\ Len(thr[j].raw.payload) <= MAX_BYTES
        /\ Started(j)
        /\ thr[j].fc.timer = j - 1

\* C5: after WRQ and DATA(1)..DATA(k) in order, full blocks and then a short
\* one, the file holds the payloads of blocks 1..k concatenated.
C5_FileIsConcatenation ==
    InOrderWrite => files[thr[1].filename] = File(0, SentPayloads(Len(thr)))

\* C6: a duplicate of an accepted DATA block is neither written nor
\* acknowledged a second time, whatever the interleaving of the handlers: of
\* the DATA handlers of one peer that matched the same context, at most one
\* goes on to _handle_WRQ.
C6_DuplicateDataWrittenOnce ==
    \A t1, t2 \in Tids :
        ( /\ IsDATA(t1) /\ IsDATA(t2)
          /\ thr[t1].addr = thr[t2].addr
          /\ Started(t1) /\ Started(t2)
          /\ thr[t1].fc.timer = thr[t2].fc.timer )
        => t1 = t2

----------------------------------------------------------------------------
\* a handler of an ACK (DATA) whose block number is not the one the context
\* it looked up waits for
Mismatched(t) ==
    \/ thr[t].pc = "ack" /\ thr[t].fc.block_num # thr[t].block_num
    \/ thr[t].pc = "data" /\ thr[t].fc.block_num + 1 # thr[t].block_num

\* a handler of an ACK (DATA) about to look up a context that waits for
\* another block number
MismatchArrives(t) ==
    /\ thr[t].pc = "parse"
    /\ \/ /\ IsACK(t) /\ thr[t].addr \in DOMAIN reads
          /\ reads[thr[t].addr].block_num # Unpack_h(thr[t].data.bnum)
       \/ /\ IsDATA(t) /\ thr[t].addr \in DOMAIN writes
          /\ writes[thr[t].addr].block_num + 1 # Unpack_h(thr[t].data.bnum)

\* C7: an ACK(m) for a read context at block n # m, or a DATA(m) for a write
\* context at block n with m # n+1, changes nothing: no step of its handler
\* changes a context, a timer, a file or sends a packet, and the handler ends.
C7_MismatchIgnored ==
    [][\A t \in Tids :
         /\ (MismatchArrives(t) /\ thr'[t] # thr[t]) =>
                /\ UNCHANGED <<reads, writes, files, timer, out>>
                /\ thr'[t].pc \in {"ack", "data"}
                /\ thr'[t].fc = IF IsACK(t) THEN reads[thr[t].addr]
                                ELSE writes[thr[t].addr]
         /\ (Mismatched(t) /\ thr'[t] # thr[t]) =>
                /\ UNCHANGED <<reads, writes, files, timer, out>>
                /\ thr'[t].pc = "done"]_vars

\* C7's case: an ACK for another block was handled to its end while the
\* loop of the context it looked up was waiting, and the loop has since
\* retransmitted.
C7_Witness ==
    \E t \in Tids :
        /\ IsACK(t) /\ thr[t].pc = "done"
        /\ thr[t].fc.timer # 0
        /\ thr[t].fc.block_num # thr[t].block_num
        /\ Live(thr[t].fc.timer)
        /\ out[t] = <<>>
        /\ Len(out[thr[t].fc.timer]) > 1

----------------------------------------------------------------------------
\* C8: every timeout that elapses in a retransmission loop causes exactly one
\* retransmission of the packet first sent: after N timeouts the thread has
\* sent its packet N+1 times (N times while the N-th retransmission is still
\* to be made), and every copy is the packet it built.
C8_OneRetransmissionPerTimeout ==
    \A t \in Tids :
        Started(t) =>
            /\ Len(out[t]) = 1 + thr[t].elapsed
                             - (IF thr[t].pc = "retry" THEN 1 ELSE 0)
            /\ \A i \in DOMAIN out[t] : out[t][i] = thr[t].pkt
            /\ thr[t].pkt.op = IF IsRead(t) THEN DATA_MODE ELSE ACK_MODE
            /\ thr[t].pkt.num = thr[t].block_num
            /\ (IsWrite(t) /\ thr[t].is_done) => thr[t].elapsed = 0

\* C8's case: MaxRetries timeouts have elapsed in one loop and the DATA
\* packet has been retransmitted as often.
C8_Witness ==
    \E t \in Tids :
        /\ thr[t].elapsed = MaxRetries
        /\ thr[t].elapsed >= 2
        /\ Len(out[t]) = MaxRetries + 1
        /\ out[t][1].op = DATA_MODE

----------------------------------------------------------------------------
\* C9: once a context is complete nothing more is sent or written for it: a
\* handler that looked up the context of an acknowledged final block (the
\* final DATA of a read, the final ACK of a write) never goes on to
\* _handle_RRQ or _handle_WRQ.
C9_NothingAfterCompletion ==
    \A t \in Tids :
        /\ (IsACK(t) /\ thr[t].fc.timer # 0 /\ thr[thr[t].fc.timer].is_done)
            => ~Started(t)
        /\ (IsDATA(t) /\ thr[t].fc.timer # 0 /\ thr[thr[t].fc.timer].is_done)
            => ~Started(t)

----------------------------------------------------------------------------
\* the step is one of an ACK (DATA) handler whose peer has no read (write)
\* context
UnknownTid(t) ==
    /\ thr[t].pc = "parse"
    /\ \/ IsACK(t) /\ thr[t].addr \notin DOMAIN reads
       \/ IsDATA(t) /\ thr[t].addr \notin DOMAIN writes

\* C10: an ACK (DATA) of a peer with no read (write) context is answered with
\* exactly one ERROR(UNKNOWN_TID): the handler sends it and ends, and no
\* context, no timer, no file and no other thread's output changes.
C10_UnknownTidAnswered ==
    [][\A t \in Tids :
         /\ (UnknownTid(t) /\ thr'[t] # thr[t]) =>
                /\ out'[t] = <<_ERROR(ERR_UNKNOWN_TID, "Unknown transfer ID")>>
                /\ \A u \in DOMAIN out : u # t => out'[u] = out[u]
                /\ UNCHANGED <<reads, writes, files, timer>>
                /\ thr'[t].pc = "exit"
         /\ thr[t].pc = "exit" => (thr'[t] = thr[t] /\ out'[t] = out[t])]_vars

\* C10's case: a2 was answered with the error while a1's transfers, one in
\* each direction, wait in their loops.
C10_Witness ==
    /\ "a1" \in DOMAIN reads /\ "a1" \in DOMAIN writes
    /\ Live(reads["a1"].timer) /\ Live(writes["a1"].timer)
    /\ "a2" \notin DOMAIN reads /\ "a2" \notin DOMAIN writes
    /\ \E t \in Tids :
        /\ thr[t].addr = "a2" /\ thr[t].pc = "exit"
        /\ out[t] = <<_ERROR(ERR_UNKNOWN_TID, "Unknown transfer ID")>>
        /\ t > reads["a1"].timer /\ t > writes["a1"].timer

----------------------------------------------------------------------------
\* a handler about to validate an RRQ in the supported mode that names a file
\* that does not exist
MissingFile(t) ==
    /\ thr[t].pc = "parse"
    /\ thr[t].data.op = RRQ_MODE
    /\ thr[t].data.form # "short"
    /\ thr[t].data.mode = "octet"
    /\ thr[t].data.filename \notin DOMAIN files

\* a handler about to validate an RRQ or WRQ in another mode than "octet"
BadMode(t) ==
    /\ thr[t].pc = "parse"
    /\ thr[t].data.op \in {RRQ_MODE, WRQ_MODE}
    /\ thr[t].data.form # "short"
    /\ thr[t].data.mode # "octet"

\* C11: an RRQ in mode "octet" for a file that does not exist is answered
\* with exactly one ERROR(FILE_NOT_FOUND): the handler sends it and ends, it
\* sends nothing after it, and no context is stored, no timer created or set
\* and no file touched.
C11_MissingFileAnswered ==
    [][\A t \in Tids :
         /\ (MissingFile(t) /\ thr'[t] # thr[t]) =>
                /\ out'[t] = <<_ERROR(ERR_FILE_NOT_FOUND, "File does not exist")>>
                /\ \A u \in DOMAIN out : u # t => out'[u] = out[u]
                /\ UNCHANGED <<reads, writes, files, timer>>
                /\ thr'[t].pc = "exit"
         /\ (thr[t].pc = "exit" /\ thr[t].data.op = RRQ_MODE
                /\ thr[t].data.mode = "octet") =>
                (thr'[t] = thr[t] /\ out'[t] = out[t] /\ timer'[t] = "none")]_vars

\* C11's case: the peer's first datagram was an RRQ for the missing file "h":
\* it was answered with the error and the peer has no read context.
C11_Witness ==
    /\ Len(thr) >= 1
    /\ thr[1].data = RRQ("h", "octet")
    /\ thr[1].pc = "exit"
    /\ out[1] = <<_ERROR(ERR_FILE_NOT_FOUND, "File does not exist")>>
    /\ "a1" \notin DOMAIN reads

\* C12: an RRQ or WRQ in another mode than "octet" is answered with exactly
\* one ERROR(ILLEGAL_TFTP_OP), also when the file it names does not exist:
\* the handler sends it and ends, sends nothing else, stores no context,
\* creates or sets no timer and touches no file.
C12_BadModeAnswered ==
    [][\A t \in Tids :
         /\ (BadMode(t) /\ thr'[t] # thr[t]) =>
                /\ out'[t] = <<_ERROR(ERR_ILLEGAL_TFTP_OP,
                                      "TFTP only supports binary mode")>>
                /\ \A u \in DOMAIN out : u # t => out'[u] = out[u]
                /\ UNCHANGED <<reads, writes, files, timer>>
                /\ thr'[t].pc = "exit"
         /\ (thr[t].pc # "parse" /\ thr[t].data.op \in {RRQ_MODE, WRQ_MODE}
                /\ thr[t].data.mode # "octet") =>
                (thr'[t] = thr[t] /\ out'[t] = out[t] /\ timer'[t] = "none")]_vars

\* C12's case: an RRQ in mode "netascii" for the missing file "h" and one for
\* the file "f" were both answered with ERROR(ILLEGAL_TFTP_OP).
C12_Witness ==
    \E t, u \in Tids :
        /\ thr[t].data = RRQ("h", "netascii")
        /\ thr[u].data = RRQ("f", "netascii")
        /\ thr[t].pc = "exit" /\ thr[u].pc = "exit"
        /\ out[t] = <<_ERROR(ERR_ILLEGAL_TFTP_OP, "TFTP only supports binary mode")>>
        /\ out[u] = out[t]

----------------------------------------------------------------------------
\* C13: a protocol error is local to its datagram: the step in which a
\* handler answers with an ERROR and ends changes no other thread (none
\* ends, none leaves its loop), no other thread's output, no context, no
\* timer and no file.
C13_ErrorsAreLocal ==
    [][\A t \in Tids :
         (thr[t].pc = "parse" /\ thr'[t].pc \in {"exit", "done"}) =>
            /\ Len(out'[t]) = 1 /\ out'[t][1].op = ERROR_MODE
            /\ \A u \in Tids \ {t} : thr'[u] = thr[u] /\ out'[u] = out[u]
            /\ UNCHANGED <<reads, writes, files, timer>>]_vars

\* C13's case: a1's transfer was under way, and has retransmitted in its
\* loop, when a datagram of a2 was answered with an ERROR; the request of a1
\* that arrived after a2's datagram was received and answered and waits in
\* its loop.
C13_Witness ==
    /\ Len(thr) = 3
    /\ thr[1].addr = "a1" /\ Started(1) /\ Len(out[1]) > 1
    /\ thr[2].addr = "a2" /\ thr[2].pc \in {"exit", "done"}
    /\ Len(out[2]) = 1 /\ out[2][1].op = ERROR_MODE
    /\ thr[3].addr = "a1" /\ Live(3) /\ thr[3].prior = 1
    /\ Len(out[3]) > 1

\* a handler of a datagram whose opcode is none of RRQ, WRQ, ACK, DATA
UnknownOpcode(t) ==
    thr[t].data.op \notin {RRQ_MODE, WRQ_MODE, ACK_MODE, DATA_MODE}

\* C17: a datagram of an unknown opcode is answered with exactly one
\* ERROR(NOT_DEFINED): its handler sends it and ends, and no context, timer,
\* file or other thread's output changes.
C17_UnknownOpcodeAnswered ==
    [][\A t \in Tids :
         UnknownOpcode(t) =>
            /\ (thr[t].pc = "parse" /\ thr'[t] # thr[t]) =>
                    /\ out'[t] = <<_ERROR(ERR_NOT_DEFINED, "Invalid packet type")>>
                    /\ \A u \in DOMAIN out : u # t => out'[u] = out[u]
                    /\ UNCHANGED <<reads, writes, files, timer>>
                    /\ thr'[t].pc = "done"
            /\ thr[t].pc # "parse" =>
                    (thr'[t] = thr[t] /\ out'[t] = out[t])]_vars

\* C17's case: a2 sent a datagram of opcode ERROR while the write of a1 was
\* waiting, and was answered with ERROR(NOT_DEFINED); the write still waits.
C17_Witness ==
    /\ "a1" \in DOMAIN writes
    /\ Live(writes["a1"].timer)
    /\ \E t \in Tids :
        /\ thr[t].data = Other(ERROR_MODE) /\ thr[t].pc = "done"
        /\ out[t] = <<_ERROR(ERR_NOT_DEFINED, "Invalid packet type")>>
        /\ t > writes["a1"].timer

----------------------------------------------------------------------------
\* a handler of a datagram of a known opcode that is not laid out as the
\* opcode requires
Malformed(t) ==
    /\ thr[t].data.op \in {RRQ_MODE, WRQ_MODE, ACK_MODE, DATA_MODE}
    /\ thr[t].data.form # "ok"

\* C18: a malformed datagram of a known opcode is treated as one of an
\* unknown opcode: once its handler has acted, the sender has been sent
\* ERROR(NOT_DEFINED) and nothing else, and the handler has stored no
\* context and created no timer.
C18_MalformedAnswered ==
    \A t \in Tids :
        (Malformed(t) /\ thr[t].pc # "parse") =>
            /\ out[t] = <<_ERROR(ERR_NOT_DEFINED, "Invalid packet type")>>
            /\ ~Started(t)

----------------------------------------------------------------------------
\* the context table of the direction of thread t's request
TableOf(t) == IF thr[t].data.op = RRQ_MODE THEN reads ELSE writes

\* C19: an RRQ or WRQ that fails validation does not preempt the transfer its
\* peer has in that direction: the step in which its handler fails leaves the
\* stored context, the timer of that context and the thread waiting on it
\* as they were.
C19_InvalidRequestDoesNotPreempt ==
    [][\A t \in Tids :
         ( /\ BadMode(t) \/ MissingFile(t)
           /\ thr[t].addr \in DOMAIN TableOf(t)
           /\ thr'[t] # thr[t] ) =>
            LET fc == TableOf(t)[thr[t].addr]
            IN  /\ UNCHANGED <<reads, writes>>
                /\ timer'[fc.timer] = timer[fc.timer]
                /\ thr'[fc.timer] = thr[fc.timer]
                /\ out'[fc.timer] = out[fc.timer]]_vars

\* C19's case: a read of "f" was waiting when an RRQ of the same peer failed
\* validation; the read went on retransmitting, and the ACK(1) that arrived
\* after the failed request was accepted and answered with block 2.
C19_Witness ==
    /\ Len(thr) = 3
    /\ thr[1].data = RRQ("f", "octet") /\ Len(out[1]) > 1
    /\ thr[2].data.op = RRQ_MODE /\ thr[2].pc = "exit"
    /\ thr[3].data = ACK(1) /\ Started(3)
    /\ thr[3].fc.timer = 1
    /\ out[3][1].op = DATA_MODE /\ out[3][1].num = 2

----------------------------------------------------------------------------
\* C14: a transfer is lock-step.  A handler sends DATA(n+1) only after it
\* accepted ACK(n) and ACK(n+1) only after it accepted DATA(n+1); a transfer
\* starts at block 1 (read) or 0 (write); and the block number stored for a
\* peer, when a handler of the same transfer changes it, goes up by exactly
\* one.
C14_LockStep ==
    [][/\ \A t \in Tids :
            (~Started(t) /\ timer'[t] # "none") =>
                /\ thr[t].data.op = RRQ_MODE => thr[t].block_num = 1
                /\ thr[t].data.op = WRQ_MODE => thr[t].block_num = 0
                /\ IsACK(t) =>
                      /\ thr[t].data.bnum = thr[t].fc.block_num
                      /\ thr[t].block_num = thr[t].fc.block_num + 1
                /\ IsDATA(t) =>
                      /\ thr[t].data.bnum = thr[t].fc.block_num + 1
                      /\ thr[t].block_num = thr[t].fc.block_num + 1
       /\ \A a \in DOMAIN reads :
            (reads'[a].block_num # reads[a].block_num
                /\ thr[reads'[a].timer].xfer = thr[reads[a].timer].xfer) =>
                reads'[a].block_num = reads[a].block_num + 1
       /\ \A a \in DOMAIN writes :
            (writes'[a].block_num # writes[a].block_num
                /\ thr[writes'[a].timer].xfer = thr[writes[a].timer].xfer) =>
                writes'[a].block_num = writes[a].block_num + 1]_vars

----------------------------------------------------------------------------
\* the ACK of the last block of the read has been accepted
FinalAcked ==
    \E t \in Tids :
        /\ IsACK(t) /\ thr[t].pc = "done"
        /\ thr[t].fc.is_done
        /\ AckMatches(thr[t].fc, thr[t].block_num)

\* C20: a read whose blocks the peer acknowledges completes and falls
\* silent: every retransmission loop is eventually stopped.  A loop is
\* stopped only by a handler that finds its timer in the stored context, and
\* once the ACK of the last block has been accepted the stored context stays
\* one of the last block; so from then on every loop still live must be the
\* one the stored context holds, or it retransmits for ever.
C20_CompletedReadIsQuiet ==
    FinalAcked =>
        \A t \in Tids :
            (IsRead(t) /\ Live(t)) => reads[thr[t].addr].timer = t

----------------------------------------------------------------------------
\* C16: block numbers are unsigned 16-bit values: the block number a handler
\* decodes from an ACK or a DATA is the number the datagram carries, and a
\* handler that has gone on to a block above 32767 builds and sends its
\* packet, with that block number.
C16_BlockNumbersUnsigned ==
    \A t \in Tids :
        /\ thr[t].pc \in {"ack", "data"} => thr[t].block_num = thr[t].data.bnum
        /\ (thr[t].block_num > ShortMax /\ thr[t].pc # "rrq") =>
                /\ Started(t)
                /\ out[t][1].num = thr[t].block_num

----------------------------------------------------------------------------
\* C15: the receive loop never blocks on a retransmission wait: whatever
\* loops are waiting, the next datagram can be received (as long as the run
\* has one to come), and every handler that has not reached its own loop can
\* take its next step: parse its request, then store its context and answer.
C15_ReceiveNeverBlocks ==
    /\ Len(thr) < MaxThreads => ENABLED Receive(StallPeers, MaxThreads)
    /\ \A t \in Tids :
        /\ thr[t].pc = "parse" => ENABLED (ParseRRQ(t) \/ ParseWRQ(t))
        /\ thr[t].pc = "rrq" => ENABLED HandleRRQ(t)
        /\ thr[t].pc = "wrq" => ENABLED HandleWRQ(t)

\* C15's case: the read of a1 has never been acknowledged and has
\* retransmitted at every timeout, and is still waiting; the request a2 sent
\* after it was received and answered.
C15_Witness ==
    /\ Len(thr) >= 2
    /\ thr[1].addr = "a1" /\ Live(1) /\ thr[1].elapsed = MaxRetries
    /\ Len(out[1]) = MaxRetries + 1
    /\ \E t \in Tids :
        /\ thr[t].addr = "a2" /\ Started(t)
        /\ out[t][1] \in {_ACK(0), _DATA(1, SeekRead(files["f"], 0, MAX_BYTES))}

====
